---- MODULE Spec2Model ----
(***************************************************************************)
(* StripeService of the Vendure payments plugin                            *)
(* (packages/payments-plugin/src/stripe/stripe.service.ts).                *)
(*                                                                         *)
(* Every `await` of the service is a point where other requests may run,   *)
(* so each invocation of createPaymentIntent is a process whose position   *)
(* (pc) names the call it is awaiting; the code between two awaits is one  *)
(* atomic action.  An awaited call either resolves or rejects; the service *)
(* has no try/catch around the calls of createPaymentIntent, so a          *)
(* rejection ends the invocation with the exception.                       *)
(***************************************************************************)
EXTENDS Integers, Sequences, FiniteSets, TLC

\* Number of request handlers that may be inside createPaymentIntent at once.
NumProcs == 2
\* Total number of createPaymentIntent invocations in one behaviour.
MaxInvocations == 2
\* Number of createRefund invocations in one behaviour.
MaxRefunds == 2
\* Largest refund amount tried.
MaxRefundAmount == 4

Procs == 1..NumProcs

(***************************************************************************)
(* JavaScript values.  undefined and null are distinct values; both and    *)
(* the empty string are falsy; only undefined and null are nullish.        *)
(***************************************************************************)
Undefined == <<"undefined">>
Null == <<"null">>
Str(s) == <<"string", s>>
\* ids generated by the gateway: "cus_1", "cus_2", ...
StripeId(n) == <<"cus", n>>

Falsy(v) == v \in {Undefined, Null, Str("")}
Truthy(v) == ~Falsy(v)
\* a ?? b
NullishCoalesce(a, b) == IF a \in {Undefined, Null} THEN b ELSE a

(***************************************************************************)
(* Entities of the order-management system.                                *)
(***************************************************************************)
Customers == {"c1", "c2"}
NoCustomer == "none"

CustomerData ==
    [c1 |-> [emailAddress |-> "ann@example.com", firstName |-> "Ann", lastName |-> "Lee"],
     c2 |-> [emailAddress |-> "bo@example.com", firstName |-> "Bo", lastName |-> "Chen"]]

\* Orders a request may carry.  inRepo = FALSE: findOne finds no such order.
OrderData ==
    [o1 |-> [code |-> "O-1", currencyCode |-> "USD", totalWithTax |-> 1999,
             customer |-> "c1", inRepo |-> TRUE],
     o2 |-> [code |-> "O-2", currencyCode |-> "JPY", totalWithTax |-> 100000,
             customer |-> "c1", inRepo |-> TRUE],
     o3 |-> [code |-> "O-3", currencyCode |-> "JPY", totalWithTax |-> 150,
             customer |-> "c2", inRepo |-> TRUE],
     o4 |-> [code |-> "O-4", currencyCode |-> "KWD", totalWithTax |-> 1250,
             customer |-> NoCustomer, inRepo |-> TRUE],
     o5 |-> [code |-> "O-5", currencyCode |-> "KRW", totalWithTax |-> 199,
             customer |-> "c1", inRepo |-> FALSE]]
Orders == DOMAIN OrderData

(***************************************************************************)
(* Intl.NumberFormat(undefined, {style: 'currency', currency}).            *)
(* formatToParts(123.45): the parts of the formatted text.  The number of  *)
(* fraction digits is the currency's (ISO 4217 / CLDR): 2 for USD and EUR, *)
(* 3 for KWD, 0 for JPY and KRW.  With 0 digits the text is the symbol and *)
(* the rounded integer, without decimal separator or fraction.             *)
(***************************************************************************)
CurrencyCodes == {"USD", "EUR", "KWD", "JPY", "KRW"}
FractionDigits == [USD |-> "45", EUR |-> "45", KWD |-> "450", JPY |-> "", KRW |-> ""]
CurrencySymbol == [USD |-> "$", EUR |-> "EUR", KWD |-> "KWD", JPY |-> "JPY", KRW |-> "KRW"]

formatToParts(currencyCode) ==
    <<[type |-> "currency", value |-> CurrencySymbol[currencyCode]],
      [type |-> "integer", value |-> "123"]>>
    \o (IF FractionDigits[currencyCode] = ""
        THEN << >>
        ELSE <<[type |-> "decimal", value |-> "."],
               [type |-> "fraction", value |-> FractionDigits[currencyCode]]>>)

\* !!parts.find(p => p.type === 'fraction')
currencyHasFractionPart(currencyCode) ==
    LET parts == formatToParts(currencyCode)
    IN \E i \in 1..Len(parts) : parts[i].type = "fraction"

\* Math.round(n / 100) truncating instead of rounding
MathRoundDiv100Trunc(n) == n \div 100

\* Math.round(n / 100) for an integer n: the nearest integer, a tie going up.
MathRoundDiv100(n) == (n + 50) \div 100

amountInMinorUnits(order) ==
    IF currencyHasFractionPart(order.currencyCode)
    THEN order.totalWithTax
    ELSE MathRoundDiv100(order.totalWithTax)

toLowerCase == [USD |-> "usd", EUR |-> "eur", KWD |-> "kwd", JPY |-> "jpy", KRW |-> "krw"]

(***************************************************************************)
(* State.                                                                  *)
(***************************************************************************)
VARIABLES
    options,          \* StripePluginOptions: storeCustomersInStripe
    customerRepo,     \* Customer table: customFields.stripeCustomerId of each customer
    stripeCustomers,  \* the gateway's customer objects, newest first
    inv,              \* the invocation of createPaymentIntent each handler is in
    invocations,      \* createPaymentIntent invocations started so far
    createCalls,      \* customers.create calls issued so far, per local customer
    created,          \* customers.create calls that resolved, per local customer
    refund,           \* the createRefund invocation
    refunds           \* createRefund invocations started so far

vars == <<options, customerRepo, stripeCustomers, inv, invocations, createCalls, created,
          refund, refunds>>
piVars == <<options, customerRepo, stripeCustomers, inv, invocations, createCalls,
            created>>
refundVars == <<refund, refunds>>

\* A handler outside createPaymentIntent.
Blank ==
    [pc |-> "idle",
     activeUserId |-> FALSE,       \* ctx.activeUserId is set
     order |-> "o1",               \* the order passed in
     customer |-> NoCustomer,      \* order.customer loaded by findOne
     fetchedId |-> Undefined,      \* stripeCustomerId of that customer as loaded
     listed |-> << >>,             \* stripeCustomers.data returned by customers.list
     stripeCustomerId |-> Undefined,
     customerId |-> Undefined,
     calls |-> << >>,              \* calls issued by this invocation, in order
     warnings |-> << >>,           \* Logger.warn messages
     infos |-> << >>,              \* Logger.info messages
     client_secret |-> Undefined,  \* client_secret of the gateway's answer
     ret |-> Undefined]            \* value createPaymentIntent resolved to

Call(api, arg) == [api |-> api, arg |-> arg]
CallsOf(r, api) == SelectSeq(r.calls, LAMBDA c : c.api = api)

\* Positions in which the invocation is over: resolved, or rejected.
Ended == {"idle", "returned", "threw"}
Awaiting == {"findOne", "customers.list", "customers.create", "save",
             "paymentIntents.create"}

\* Pre-existing gateway customers registered under c1's email address.
Existing(n) ==
    [i \in 1..n |-> [id |-> StripeId(n + 1 - i),
                     email |-> CustomerData["c1"].emailAddress,
                     name |-> "Ann Lee"]]

BlankRefund ==
    [pc |-> "idle", paymentIntentId |-> "pi_1", amount |-> 1, calls |-> << >>,
     outcome |-> Undefined,   \* what the gateway's refunds.create did
     ret |-> Undefined,       \* value createRefund resolved to
     raised |-> Undefined]    \* exception createRefund rejected with

Init ==
    /\ options \in [storeCustomersInStripe : BOOLEAN]
    /\ customerRepo = [c \in Customers |-> Null]
    /\ stripeCustomers \in {Existing(0), Existing(1), Existing(2)}
    /\ inv = [p \in Procs |-> Blank]
    /\ invocations = 0
    /\ createCalls = [c \in Customers |-> 0]
    /\ created = [c \in Customers |-> 0]
    /\ refund = BlankRefund
    /\ refunds = 0

(***************************************************************************)
(* createPaymentIntent, lines 43-59: compute the amount and issue          *)
(* stripe.paymentIntents.create, then await it.                            *)
(***************************************************************************)
SendPaymentIntentAmount(r, customerId, amount) ==
    [r EXCEPT
       !.customerId = customerId,
       !.pc = "paymentIntents.create",
       !.calls = Append(@, Call("paymentIntents.create",
                   [amount |-> amount,
                    currency |-> toLowerCase[OrderData[r.order].currencyCode],
                    customer |-> customerId,
                    orderId |-> r.order,
                    orderCode |-> OrderData[r.order].code]))]

SendPaymentIntent(r, customerId) ==
    SendPaymentIntentAmount(r, customerId, amountInMinorUnits(OrderData[r.order]))

\* line 31 with || in place of &&
SyncsCustomerEither(storeCustomersInStripe, activeUserId) ==
    storeCustomersInStripe \/ activeUserId

\* line 31: this.options.storeCustomersInStripe && ctx.activeUserId
SyncsCustomer(storeCustomersInStripe, activeUserId) ==
    storeCustomersInStripe /\ activeUserId

\* createPaymentIntent is called: runs to its first await.
Start(p, o, u) ==
    /\ inv[p].pc \in Ended
    /\ invocations < MaxInvocations
    /\ invocations' = invocations + 1
    /\ LET r == [Blank EXCEPT !.order = o, !.activeUserId = u]
       IN inv' = [inv EXCEPT ![p] =
                    IF SyncsCustomer(options.storeCustomersInStripe, u)
                    THEN [r EXCEPT !.pc = "findOne",
                                   !.calls = <<Call("findOne", [id |-> o])>>]
                    ELSE SendPaymentIntent(r, Undefined)]
    /\ UNCHANGED <<options, customerRepo, stripeCustomers, createCalls, created, refundVars>>

(***************************************************************************)
(* getStripeCustomerId, lines 96-133.                                      *)
(***************************************************************************)
\* lines 109-115 without the early return of the cached id
AfterLoadNoShortCircuit(r) ==
    [r EXCEPT !.pc = "customers.list",
              !.calls = Append(@, Call("customers.list",
                          [email |-> CustomerData[r.customer].emailAddress]))]

\* lines 107-115: the customer is loaded; return the cached id or query the gateway.
AfterLoad(r) ==
    IF Truthy(r.fetchedId)
    THEN SendPaymentIntent(r, r.fetchedId)
    ELSE [r EXCEPT !.pc = "customers.list",
                   !.calls = Append(@, Call("customers.list",
                               [email |-> CustomerData[r.customer].emailAddress]))]

\* lines 98-105: findOne resolves with the order and its customer relation.
FindOneReturns(p) ==
    /\ inv[p].pc = "findOne"
    /\ LET r == inv[p]
           order == OrderData[r.order]
       IN inv' = [inv EXCEPT ![p] =
                    IF ~order.inRepo \/ order.customer = NoCustomer
                    THEN SendPaymentIntent(r, Undefined)
                    ELSE AfterLoad([r EXCEPT
                           !.customer = order.customer,
                           !.fetchedId = customerRepo[order.customer]])]
    /\ UNCHANGED <<options, customerRepo, stripeCustomers, invocations, createCalls,
                   created, refundVars>>

\* lines 129-130: set the field on the loaded entity and issue the save.
IssueSave(r) ==
    [r EXCEPT !.pc = "save",
              !.calls = Append(@, Call("save",
                          [id |-> r.customer, stripeCustomerId |-> r.stripeCustomerId]))]

\* line 117 taking the last match instead of the first
AfterListTakeLast(r, data) ==
    IF Len(data) > 0
    THEN IssueSave([r EXCEPT !.listed = data, !.stripeCustomerId = data[Len(data)].id])
    ELSE [r EXCEPT !.listed = data,
                   !.pc = "customers.create",
                   !.calls = Append(@, Call("customers.create",
                               [email |-> CustomerData[r.customer].emailAddress,
                                name |-> CustomerData[r.customer].firstName \o " "
                                         \o CustomerData[r.customer].lastName]))]

\* lines 119-122 building the name without the separating space
AfterListNameNoSpace(r, data) ==
    IF Len(data) > 0
    THEN IssueSave([r EXCEPT !.listed = data, !.stripeCustomerId = data[1].id])
    ELSE [r EXCEPT !.listed = data,
                   !.pc = "customers.create",
                   !.calls = Append(@, Call("customers.create",
                               [email |-> CustomerData[r.customer].emailAddress,
                                name |-> CustomerData[r.customer].firstName
                                         \o CustomerData[r.customer].lastName]))]

\* lines 116-122: use the first match, or issue customers.create.
AfterList(r, data) ==
    IF Len(data) > 0
    THEN IssueSave([r EXCEPT !.listed = data, !.stripeCustomerId = data[1].id])
    ELSE [r EXCEPT !.listed = data,
                   !.pc = "customers.create",
                   !.calls = Append(@, Call("customers.create",
                               [email |-> CustomerData[r.customer].emailAddress,
                                name |-> CustomerData[r.customer].firstName \o " "
                                         \o CustomerData[r.customer].lastName]))]

\* stripe.customers.list({email}): the gateway's customers with that email.
CustomersList(email) == SelectSeq(stripeCustomers, LAMBDA s : s.email = email)

\* line 115: customers.list resolves.
ListReturns(p) ==
    /\ inv[p].pc = "customers.list"
    /\ LET r == inv[p]
           data == CustomersList(r.calls[Len(r.calls)].arg.email)
       IN /\ inv' = [inv EXCEPT ![p] = AfterList(r, data)]
          /\ createCalls' = [createCalls EXCEPT ![r.customer] =
                               IF inv'[p].pc = "customers.create" THEN @ + 1 ELSE @]
    /\ UNCHANGED <<options, customerRepo, stripeCustomers, invocations, created, refundVars>>

\* lines 119-126: customers.create resolves with the new gateway customer.
CreateReturns(p) ==
    /\ inv[p].pc = "customers.create"
    /\ LET r == inv[p]
           arg == r.calls[Len(r.calls)].arg
           newStripeCustomer == [id |-> StripeId(Len(stripeCustomers) + 1),
                                 email |-> arg.email, name |-> arg.name]
       IN /\ stripeCustomers' = <<newStripeCustomer>> \o stripeCustomers
          /\ inv' = [inv EXCEPT ![p] =
                       IssueSave([r EXCEPT
                          !.stripeCustomerId = newStripeCustomer.id,
                          !.infos = Append(@, r.customer)])]
          /\ created' = [created EXCEPT ![r.customer] = @ + 1]
    /\ UNCHANGED <<options, customerRepo, invocations, createCalls, refundVars>>

\* a save that keeps an id already stored
SaveCustomerKeepExisting(repo, entity) ==
    IF Truthy(repo[entity.id]) THEN repo
    ELSE [repo EXCEPT ![entity.id] = entity.stripeCustomerId]

\* a save that writes nothing
SaveCustomerNothing(repo, entity) == repo

\* getRepository(ctx, Customer).save(customer): the entity's field is written.
SaveCustomer(repo, entity) == [repo EXCEPT ![entity.id] = entity.stripeCustomerId]

\* lines 130-132 and 32: the save resolves, the id is returned to createPaymentIntent.
SaveReturns(p) ==
    /\ inv[p].pc = "save"
    /\ LET r == inv[p]
       IN /\ customerRepo' = SaveCustomer(customerRepo, r.calls[Len(r.calls)].arg)
          /\ inv' = [inv EXCEPT ![p] = SendPaymentIntent(r, r.stripeCustomerId)]
    /\ UNCHANGED <<options, stripeCustomers, invocations, createCalls, created, refundVars>>

(***************************************************************************)
(* createPaymentIntent, lines 47-69: the gateway's answer.                 *)
(***************************************************************************)
ClientSecrets == {Undefined, Null, Str(""), Str("pi_1_secret")}

\* lines 61-69: warn when !client_secret; return client_secret ?? undefined.
AfterIntent(r, client_secret) ==
    [r EXCEPT !.pc = "returned",
              !.client_secret = client_secret,
              !.warnings = IF Falsy(client_secret)
                           THEN Append(@, OrderData[r.order].code) ELSE @,
              !.ret = NullishCoalesce(client_secret, Undefined)]

PaymentIntentReturns(p, client_secret) ==
    /\ inv[p].pc = "paymentIntents.create"
    /\ inv' = [inv EXCEPT ![p] = AfterIntent(inv[p], client_secret)]
    /\ UNCHANGED <<options, customerRepo, stripeCustomers, invocations, createCalls,
                   created, refundVars>>

\* An awaited call rejects: nothing in createPaymentIntent or getStripeCustomerId
\* catches, so the invocation ends with the exception and its locals are gone.
Rejects(p) ==
    /\ inv[p].pc \in Awaiting
    /\ inv' = [inv EXCEPT ![p] = [Blank EXCEPT !.pc = "threw"]]
    /\ UNCHANGED <<options, customerRepo, stripeCustomers, invocations, createCalls,
                   created, refundVars>>

Next ==
    \/ \E p \in Procs, o \in Orders, u \in BOOLEAN : Start(p, o, u)
    \/ \E p \in Procs : FindOneReturns(p)
    \/ \E p \in Procs : ListReturns(p)
    \/ \E p \in Procs : CreateReturns(p)
    \/ \E p \in Procs : SaveReturns(p)
    \/ \E p \in Procs, s \in ClientSecrets : PaymentIntentReturns(p, s)
    \/ \E p \in Procs : Rejects(p)

\* Requests handled concurrently.
Spec == Init /\ [][Next]_vars

(***************************************************************************)
(* Requests handled one after the other: an invocation starts only when    *)
(* every earlier one has ended.                                            *)
(***************************************************************************)
SeqStart(p, o, u) ==
    /\ \A q \in Procs : inv[q].pc \in Ended
    /\ Start(p, o, u)

SeqNext ==
    \/ \E p \in Procs, o \in Orders, u \in BOOLEAN : SeqStart(p, o, u)
    \/ \E p \in Procs : FindOneReturns(p)
    \/ \E p \in Procs : ListReturns(p)
    \/ \E p \in Procs : CreateReturns(p)
    \/ \E p \in Procs : SaveReturns(p)
    \/ \E p \in Procs, s \in ClientSecrets : PaymentIntentReturns(p, s)
    \/ \E p \in Procs : Rejects(p)

SeqSpec == Init /\ [][SeqNext]_vars

(***************************************************************************)
(* createRefund, lines 72-85.                                              *)
(***************************************************************************)
PaymentIntentIds == {"pi_1", "pi_2", "pi_3"}
StripeErrors == {"StripeCardError", "StripeInvalidRequestError", "StripeConnectionError"}

CreateRefund(paymentIntentId, amount) ==
    /\ refund.pc \in Ended
    /\ refunds < MaxRefunds
    /\ refunds' = refunds + 1
    /\ refund' = [BlankRefund EXCEPT
                    !.pc = "refunds.create",
                    !.paymentIntentId = paymentIntentId,
                    !.amount = amount,
                    !.calls = <<Call("refunds.create",
                                 [payment_intent |-> paymentIntentId, amount |-> amount])>>]
    /\ UNCHANGED piVars

\* line 81: the gateway's refund object is returned.
RefundReturns ==
    /\ refund.pc = "refunds.create"
    /\ LET obj == <<"refund", refund.calls[1].arg.payment_intent,
                     refund.calls[1].arg.amount>>
       IN refund' = [refund EXCEPT
                       !.pc = "returned",
                       !.outcome = <<"resolved", obj>>,
                       !.ret = obj]
    /\ UNCHANGED <<piVars, refunds>>

\* a catch block that throws the error again
CaughtRethrown(r, e) == [r EXCEPT !.pc = "threw", !.raised = <<"error", e>>]

\* lines 82-84: the error is caught and returned.
Caught(r, e) == [r EXCEPT !.pc = "returned", !.ret = <<"error", e>>]

RefundRejects(e) ==
    /\ refund.pc = "refunds.create"
    /\ refund' = Caught([refund EXCEPT !.outcome = <<"rejected", e>>], e)
    /\ UNCHANGED <<piVars, refunds>>

RefundNext ==
    \/ \E id \in PaymentIntentIds, amount \in 1..MaxRefundAmount : CreateRefund(id, amount)
    \/ RefundReturns
    \/ \E e \in StripeErrors : RefundRejects(e)

RefundSpec == Init /\ [][RefundNext]_vars

(***************************************************************************)
(* Properties.                                                             *)
(***************************************************************************)
\* The invocation of handler p has got past customer resolution.
Resolved(p) == inv[p].pc \in {"paymentIntents.create", "returned"}
\* The paymentIntents.create request of an invocation that has sent it.
Request(p) == CallsOf(inv[p], "paymentIntents.create")[1].arg
\* Handler p takes the step in which its awaited call `from` resolves.
Leaves(p, from) == inv[p].pc = from /\ inv'[p].pc \notin {from, "threw"}
\* The invocation of p found no cached id and no gateway customer, created one
\* and has saved its id.
SavedCreated(p) ==
    /\ Resolved(p)
    /\ inv[p].customer \in Customers
    /\ Falsy(inv[p].fetchedId)
    /\ inv[p].listed = << >>
    /\ Len(CallsOf(inv[p], "customers.create")) = 1

\* C1: once a customer's stripeCustomerId is cached (non-empty), no step of any
\* invocation changes the stored value.
C1_CachedIdNeverOverwritten ==
    [][\A c \in Customers :
         Truthy(customerRepo[c]) => customerRepo'[c] = customerRepo[c]]_vars

\* C2: the amount of every paymentIntents.create request is the order's
\* totalWithTax unchanged when the currency has a fractional subunit, and the
\* integer nearest to totalWithTax / 100 (a tie going up, as Math.round) when the
\* currency is zero-decimal; 100000 JPY gives 1000 and 1999 USD gives 1999.
ZeroDecimalCurrencies == {"JPY", "KRW"}
C2_GatewayAmount ==
    \A p \in Procs :
        Resolved(p) =>
            LET order == OrderData[inv[p].order]
                amount == Request(p).amount
            IN /\ order.currencyCode \notin ZeroDecimalCurrencies
                    => amount = order.totalWithTax
               /\ order.currencyCode \in ZeroDecimalCurrencies
                    => 100 * amount - order.totalWithTax \in -49..50
               /\ order.currencyCode = "JPY" /\ order.totalWithTax = 100000
                    => amount = 1000
               /\ order.currencyCode = "USD" /\ order.totalWithTax = 1999
                    => amount = 1999

\* Requests for a zero-decimal order whose total is a tie (150 JPY-hundredths)
\* and for a USD order have both been sent.
C2_Witness ==
    \E p, q \in Procs :
        /\ Resolved(p) /\ inv[p].order = "o3" /\ Request(p).amount = 2
        /\ Resolved(q) /\ inv[q].order = "o1" /\ Request(q).amount = 1999

\* C3: an invocation whose re-fetched customer already had a cached id issues no
\* customers.list, no customers.create and no save, and getStripeCustomerId
\* returns exactly the cached value (which the request then carries).
C3_CachedShortCircuit ==
    \A p \in Procs :
        inv[p].pc \in Awaiting \cup {"returned"} /\ Truthy(inv[p].fetchedId) =>
            /\ CallsOf(inv[p], "customers.list") = << >>
            /\ CallsOf(inv[p], "customers.create") = << >>
            /\ CallsOf(inv[p], "save") = << >>
            /\ Resolved(p)
            /\ inv[p].customerId = inv[p].fetchedId
            /\ Request(p).customer = inv[p].fetchedId

C3_Witness ==
    \E p \in Procs :
        /\ inv[p].pc = "returned"
        /\ Truthy(inv[p].fetchedId)
        /\ inv[p].fetchedId = customerRepo[inv[p].customer]

\* C4: when the customer has no cached id and customers.list by the customer's
\* email returns one or more gateway customers, the id of the first one is
\* taken, no customers.create is issued, and when the save resolves that id is
\* stored on the customer record and returned.
C4_FirstMatchUsed ==
    [][\A p \in Procs :
         LET r == inv[p]
             data == CustomersList(CustomerData[r.customer].emailAddress)
         IN /\ Leaves(p, "customers.list") /\ Len(data) > 0 =>
                  /\ Falsy(r.fetchedId)
                  /\ inv'[p].pc = "save"
                  /\ inv'[p].listed = data
                  /\ inv'[p].stripeCustomerId = data[1].id
                  /\ CallsOf(inv'[p], "customers.create") = << >>
            /\ Leaves(p, "save") /\ Len(r.listed) > 0 =>
                  /\ customerRepo'[r.customer] = r.listed[1].id
                  /\ inv'[p].customerId = r.listed[1].id
                  /\ CallsOf(inv'[p], "customers.create") = << >>]_vars

\* Two gateway customers matched; the newer (first returned) one was stored.
C4_Witness ==
    \E p \in Procs :
        /\ inv[p].pc = "returned"
        /\ Len(inv[p].listed) = 2
        /\ inv[p].customerId = inv[p].listed[1].id
        /\ inv[p].customerId # inv[p].listed[2].id
        /\ customerRepo[inv[p].customer] = inv[p].customerId

\* C5: when the customer has no cached id and customers.list returns no match,
\* exactly one customers.create is issued, with the local email and the name
\* "firstName lastName"; the id of the gateway customer it creates is the value
\* stored as stripeCustomerId when the save resolves, and the value returned.
FullName == [c1 |-> "Ann Lee", c2 |-> "Bo Chen"]
C5_CreatedWhenNoMatch ==
    [][\A p \in Procs :
         LET r == inv[p]
             data == CustomersList(CustomerData[r.customer].emailAddress)
         IN /\ Leaves(p, "customers.list") /\ Len(data) = 0 =>
                  /\ Falsy(r.fetchedId)
                  /\ inv'[p].pc = "customers.create"
                  /\ CallsOf(inv'[p], "customers.create")
                       = <<Call("customers.create",
                              [email |-> CustomerData[r.customer].emailAddress,
                               name |-> FullName[r.customer]])>>
            /\ Leaves(p, "customers.create") =>
                  /\ Len(stripeCustomers') = Len(stripeCustomers) + 1
                  /\ \A i \in 1..Len(stripeCustomers) :
                        stripeCustomers[i].id # stripeCustomers'[1].id
                  /\ stripeCustomers'[1].email = CustomerData[r.customer].emailAddress
                  /\ stripeCustomers'[1].name = FullName[r.customer]
                  /\ inv'[p].stripeCustomerId = stripeCustomers'[1].id
                  /\ Len(CallsOf(inv'[p], "customers.create")) = 1
            /\ Leaves(p, "save") /\ r.listed = << >> =>
                  /\ Truthy(r.stripeCustomerId)
                  /\ \E i \in 1..Len(stripeCustomers) :
                        /\ stripeCustomers[i].id = r.stripeCustomerId
                        /\ stripeCustomers[i].email = CustomerData[r.customer].emailAddress
                  /\ customerRepo'[r.customer] = r.stripeCustomerId
                  /\ inv'[p].customerId = r.stripeCustomerId
                  /\ Len(CallsOf(inv'[p], "customers.create")) = 1]_vars

C5_Witness ==
    \E p \in Procs :
        /\ inv[p].pc = "returned"
        /\ SavedCreated(p)
        /\ Truthy(inv[p].customerId)
        /\ customerRepo[inv[p].customer] = inv[p].customerId
        /\ stripeCustomers[1].id = inv[p].customerId
        /\ stripeCustomers[1].name = "Bo Chen"

\* C6: if storeCustomersInStripe is false or the context has no active user, the
\* invocation issues no findOne, customers.list, customers.create or save, and
\* its paymentIntents.create request carries no customer id.
C6_NoResolutionWithoutSync ==
    \A p \in Procs :
        /\ inv[p].pc \in Awaiting \cup {"returned"}
        /\ (~options.storeCustomersInStripe \/ ~inv[p].activeUserId)
        => /\ Len(inv[p].calls) = 1
           /\ inv[p].calls[1].api = "paymentIntents.create"
           /\ Request(p).customer = Undefined
           /\ inv[p].customerId = Undefined

\* Syncing is on, the customer of the order has a cached id, and an invocation
\* without active user has returned.
C6_Witness ==
    \E p \in Procs :
        /\ inv[p].pc = "returned"
        /\ options.storeCustomersInStripe
        /\ ~inv[p].activeUserId
        /\ OrderData[inv[p].order].customer \in Customers
        /\ Truthy(customerRepo[OrderData[inv[p].order].customer])

\* C7: createRefund never rejects: when refunds.create rejects, createRefund
\* returns the error as its value; when it resolves, createRefund returns the
\* refund object; either way exactly one refunds.create request was issued.
C7_RefundErrorReturned ==
    /\ refund.pc # "threw"
    /\ refund.raised = Undefined
    /\ refund.pc = "returned" =>
          /\ refund.calls = <<Call("refunds.create",
                                [payment_intent |-> refund.paymentIntentId,
                                 amount |-> refund.amount])>>
          /\ refund.outcome[1] \in {"resolved", "rejected"}
          /\ refund.outcome[1] = "resolved" => refund.ret = refund.outcome[2]
          /\ refund.outcome[1] = "rejected" => refund.ret = <<"error", refund.outcome[2]>>

C7_Witness ==
    /\ refund.pc = "returned"
    /\ refund.outcome = <<"rejected", "StripeCardError">>
    /\ refund.ret = <<"error", "StripeCardError">>
    /\ refunds = 2

\* C8: if the gateway's answer has no client_secret (null, undefined or empty),
\* createPaymentIntent logs a warning and returns undefined; otherwise it returns
\* exactly the secret and logs no warning.
C8_NoSecretReturnsUndefined ==
    \A p \in Procs :
        inv[p].pc = "returned" =>
            IF inv[p].client_secret \in {Null, Undefined, Str("")}
            THEN Len(inv[p].warnings) = 1 /\ inv[p].ret = Undefined
            ELSE inv[p].warnings = << >> /\ inv[p].ret = inv[p].client_secret

\* C9: two overlapping resolutions for one customer that both saw no cached id
\* and both got no match each created a gateway customer: when the later one's
\* save resolves after the earlier one's id was stored, the two ids differ, both
\* gateway customers exist under the customer's email, and the later write
\* replaces the earlier id.
C9_DuplicateCreationRace ==
    [][\A p, q \in Procs :
         /\ p # q
         /\ Leaves(p, "save")
         /\ inv[p].listed = << >>
         /\ SavedCreated(q)
         /\ inv[q].customer = inv[p].customer
         /\ customerRepo[inv[p].customer] = inv[q].stripeCustomerId
         => /\ inv[p].stripeCustomerId # inv[q].stripeCustomerId
            /\ \A id \in {inv[p].stripeCustomerId, inv[q].stripeCustomerId} :
                  \E i \in 1..Len(stripeCustomers) :
                     /\ stripeCustomers[i].id = id
                     /\ stripeCustomers[i].email
                          = CustomerData[inv[p].customer].emailAddress
            /\ customerRepo'[inv[p].customer] = inv[p].stripeCustomerId
            /\ customerRepo'[inv[p].customer] # customerRepo[inv[p].customer]]_vars

\* Both invocations created a gateway customer for the one local customer and
\* both have saved; the stored id is the one of the later writer.
C9_Witness ==
    \E p, q \in Procs :
        /\ p # q
        /\ SavedCreated(p) /\ SavedCreated(q)
        /\ inv[p].customer = inv[q].customer
        /\ inv[p].stripeCustomerId # inv[q].stripeCustomerId
        /\ created[inv[p].customer] = 2
        /\ Len(CustomersList(CustomerData[inv[p].customer].emailAddress)) = 2
        /\ customerRepo[inv[p].customer] = inv[p].stripeCustomerId
        /\ stripeCustomers[1].id = inv[q].stripeCustomerId

\* An invocation with syncing on and an active user, for an order whose customer
\* is on record, has resolved the customer id.
SyncedFor(p, c) ==
    /\ Resolved(p)
    /\ options.storeCustomersInStripe
    /\ inv[p].activeUserId
    /\ inv[p].customer = c

\* C10 as stated: without overlap, at most one customers.create call is issued
\* per customer in total, and every invocation attaches the id stored on the
\* customer record.
C10_AtMostOneCreateCall ==
    \A c \in Customers :
        /\ createCalls[c] <= 1
        /\ \A p \in Procs : SyncedFor(p, c) =>
              /\ Truthy(customerRepo[c])
              /\ Request(p).customer = customerRepo[c]

\* C10 amended: without overlap, at most one customers.create call per customer
\* resolves (a call the gateway rejects leaves nothing cached, and a later
\* invocation issues another), and every invocation that gets to its
\* payment-intent request attaches the id stored on the customer record.
C10_AtMostOneCreateResolves ==
    \A c \in Customers :
        /\ created[c] <= 1
        /\ created[c] <= createCalls[c]
        /\ \A p \in Procs : SyncedFor(p, c) =>
              /\ Truthy(customerRepo[c])
              /\ Request(p).customer = customerRepo[c]

\* One invocation created the gateway customer; a later one used the cached id.
C10_Witness ==
    \E p, q \in Procs :
        /\ inv[p].pc = "returned" /\ SavedCreated(p)
        /\ inv[q].pc = "returned" /\ SyncedFor(q, inv[p].customer)
        /\ inv[q].fetchedId = inv[p].stripeCustomerId
        /\ Request(q).customer = Request(p).customer
        /\ created[inv[p].customer] = 1

====
